---- MODULE Spec2Model ----
(***************************************************************************)
(* Model of src/src/get-styles.ts: the getStyles pipeline (product-page    *)
(* resolution, page capture, the parallel palette / dominant colour /      *)
(* candidate collection / theme resolution, the scoring reduce and the     *)
(* final merge) together with the pure colour and scoring functions.       *)
(*                                                                         *)
(* Conventions.  JavaScript strings are TLA+ strings read character by     *)
(* character.  Numbers that are fractions in the code are kept as scaled   *)
(* integers: alpha values as a numerator/denominator pair, luminance in    *)
(* ten-thousandths, scores in thousandths.  NaN is a record flag.          *)
(***************************************************************************)
EXTENDS Integers, Sequences, FiniteSets, TLC

(***************************************************************************)
(* String helpers (JavaScript string primitives used by the source).       *)
(***************************************************************************)
Digits == {"0", "1", "2", "3", "4", "5", "6", "7", "8", "9"}

HexLetters == {"a", "b", "c", "d", "e", "f", "A", "B", "C", "D", "E", "F"}

Whitespace == {" ", "\t"}

UpperSeq == <<"A", "B", "C", "D", "E", "F", "G", "H", "I", "J", "K", "L", "M",
              "N", "O", "P", "Q", "R", "S", "T", "U", "V", "W", "X", "Y", "Z">>

LowerSeq == <<"a", "b", "c", "d", "e", "f", "g", "h", "i", "j", "k", "l", "m",
              "n", "o", "p", "q", "r", "s", "t", "u", "v", "w", "x", "y", "z">>

\* s[i-1] in JavaScript (1-based here); "" past either end.
At(s, i) == IF i >= 1 /\ i <= Len(s) THEN SubSeq(s, i, i) ELSE ""

\* s.slice(from, to) with 0-based, end-exclusive JavaScript indices.
Slice(s, from, to) ==
    LET f == IF from > Len(s) THEN Len(s) ELSE from
        t == IF to > Len(s) THEN Len(s) ELSE to
    IN  IF t <= f THEN "" ELSE SubSeq(s, f + 1, t)

StartsWithAt(s, i, lit) ==
    /\ i >= 1
    /\ i + Len(lit) - 1 <= Len(s)
    /\ SubSeq(s, i, i + Len(lit) - 1) = lit

\* True when lit occurs somewhere in s (the CSS attribute selector [class*=lit]).
Contains(s, lit) == \E i \in 1..Len(s) : StartsWithAt(s, i, lit)

ToLowerChar(c) ==
    IF \E k \in 1..26 : UpperSeq[k] = c
    THEN LowerSeq[CHOOSE k \in 1..26 : UpperSeq[k] = c]
    ELSE c

RECURSIVE ToLowerCase(_)
ToLowerCase(s) ==
    IF Len(s) = 0 THEN ""
    ELSE ToLowerChar(At(s, 1)) \o ToLowerCase(SubSeq(s, 2, Len(s)))

\* Position of the first character at or after i that is not whitespace (\s*).
RECURSIVE SkipWs(_, _)
SkipWs(s, i) == IF At(s, i) \in Whitespace THEN SkipWs(s, i + 1) ELSE i

\* Position just after the longest run of decimal digits starting at i (\d+, greedy).
RECURSIVE DigitsEnd(_, _)
DigitsEnd(s, i) == IF At(s, i) \in Digits THEN DigitsEnd(s, i + 1) ELSE i

\* Position of the last character that is not whitespace, 0 if there is none.
RECURSIVE LastNonWs(_, _)
LastNonWs(s, i) ==
    IF i = 0 THEN 0
    ELSE IF At(s, i) \in Whitespace THEN LastNonWs(s, i - 1) ELSE i

\* String.prototype.trim
Trim(s) ==
    LET a == SkipWs(s, 1)
        b == LastNonWs(s, Len(s))
    IN  IF b < a THEN "" ELSE SubSeq(s, a, b)

DigitVal(c) ==
    CASE c = "0" -> 0 [] c = "1" -> 1 [] c = "2" -> 2 [] c = "3" -> 3
      [] c = "4" -> 4 [] c = "5" -> 5 [] c = "6" -> 6 [] c = "7" -> 7
      [] c = "8" -> 8 [] c = "9" -> 9
      [] c \in {"a", "A"} -> 10 [] c \in {"b", "B"} -> 11
      [] c \in {"c", "C"} -> 12 [] c \in {"d", "D"} -> 13
      [] c \in {"e", "E"} -> 14 [] c \in {"f", "F"} -> 15

\* Value of a non-empty run of digits of the given radix.
RECURSIVE DigitsValue(_, _)
DigitsValue(s, radix) ==
    IF Len(s) = 0 THEN 0
    ELSE DigitsValue(SubSeq(s, 1, Len(s) - 1), radix) * radix + DigitVal(At(s, Len(s)))

RECURSIVE Pow10(_)
Pow10(n) == IF n = 0 THEN 1 ELSE 10 * Pow10(n - 1)

\* Number -> decimal string (template literals and CSSOM serialisation).
RECURSIVE NatToString(_)
NatToString(n) ==
    LET d == SubSeq("0123456789", (n % 10) + 1, (n % 10) + 1)
    IN  IF n < 10 THEN d ELSE NatToString(n \div 10) \o d

(***************************************************************************)
(* JavaScript numbers.  NaN is [nan |-> TRUE]; a finite value is num/den.  *)
(***************************************************************************)
NaN == [nan |-> TRUE, num |-> 0, den |-> 1]

Num(n, d) == [nan |-> FALSE, num |-> n, den |-> d]

\* Number.parseInt(s, radix) for the strings the source hands it: the longest
\* prefix of digits of the radix, NaN when that prefix is empty.
RECURSIVE RadixDigitsEnd(_, _, _)
RadixDigitsEnd(s, i, radix) ==
    IF At(s, i) \in Digits \/ (radix = 16 /\ At(s, i) \in HexLetters)
    THEN RadixDigitsEnd(s, i + 1, radix)
    ELSE i

parseInt(s, radix) ==
    LET e == RadixDigitsEnd(s, 1, radix)
    IN  IF e = 1 THEN NaN ELSE Num(DigitsValue(SubSeq(s, 1, e - 1), radix), 1)

\* Number.parseFloat(s): leading whitespace skipped, optional sign, digits,
\* optional fraction; NaN when neither integer nor fraction digits are there.
\* (No exponent part: none of the strings drawn below has one.)
parseFloat(s) ==
    LET p0   == SkipWs(s, 1)
        neg  == At(s, p0) = "-"
        p1   == IF At(s, p0) \in {"-", "+"} THEN p0 + 1 ELSE p0
        ie   == DigitsEnd(s, p1)
        ip   == SubSeq(s, p1, ie - 1)
        fs   == IF At(s, ie) = "." THEN ie + 1 ELSE ie
        fe   == IF At(s, ie) = "." THEN DigitsEnd(s, fs) ELSE ie
        fp   == SubSeq(s, fs, fe - 1)
        mag  == DigitsValue(ip \o fp, 10)
    IN  IF Len(ip) = 0 /\ Len(fp) = 0 THEN NaN
        ELSE Num(IF neg THEN 0 - mag ELSE mag, Pow10(Len(fp)))

\* a < b for JavaScript numbers (any comparison with NaN is false).
JsLess(a, b) == ~a.nan /\ ~b.nan /\ a.num * b.den < b.num * a.den

(***************************************************************************)
(* Colour math.                                                            *)
(***************************************************************************)
\* v.toString(16).padStart(2, "0") for a byte.
ByteToHex(v) ==
    LET hex == "0123456789abcdef"
        hi  == v \div 16
        lo  == v % 16
    IN  (IF hi = 0 THEN "0" ELSE SubSeq(hex, hi + 1, hi + 1)) \o SubSeq(hex, lo + 1, lo + 1)

rgbToHex(r, g, b) == "#" \o ByteToHex(r) \o ByteToHex(g) \o ByteToHex(b)

\* The capture group (\d?.?\d+) followed by \) , tried from position q in the
\* order a backtracking matcher tries it: \d? taken or not, .? taken or not,
\* then the greedy digit run.  The result is the position of the closing
\* parenthesis, or 0 when no alternative matches.
AlphaTryEnd(s, q, d, dot, e) ==
    IF /\ (d = 1 => At(s, q) \in Digits)
       /\ (dot = 1 => At(s, q + d) # "")
       /\ e > q + d + dot
       /\ At(s, e) = ")"
    THEN e ELSE 0

AlphaTry(s, q, d, dot) == AlphaTryEnd(s, q, d, dot, DigitsEnd(s, q + d + dot))

FirstNonZero(a, b, c, d) ==
    IF a # 0 THEN a ELSE IF b # 0 THEN b ELSE IF c # 0 THEN c ELSE d

AlphaGroupEnd(s, q) ==
    FirstNonZero(AlphaTry(s, q, 1, 1), AlphaTry(s, q, 1, 0),
                 AlphaTry(s, q, 0, 1), AlphaTry(s, q, 0, 0))

NoMatch == [ok |-> FALSE, g1 |-> "", g2 |-> "", g3 |-> "", has4 |-> FALSE, g4 |-> ""]

\* /rgba?\(\s*(\d+),\s*(\d+),\s*(\d+)(?:,\s*(\d?.?\d+))?\)/ matched at position i.
RgbRegexAt(s, i) ==
    LET pa == IF At(s, i + 3) = "a" THEN i + 4 ELSE i + 3
        q1 == SkipWs(s, pa + 1)
        e1 == DigitsEnd(s, q1)
        q2 == SkipWs(s, e1 + 1)
        e2 == DigitsEnd(s, q2)
        q3 == SkipWs(s, e2 + 1)
        e3 == DigitsEnd(s, q3)
        qa == SkipWs(s, e3 + 1)
        ea == AlphaGroupEnd(s, qa)
    IN  IF ~(/\ StartsWithAt(s, i, "rgb")
             /\ At(s, pa) = "("
             /\ e1 > q1 /\ At(s, e1) = ","
             /\ e2 > q2 /\ At(s, e2) = ","
             /\ e3 > q3)
        THEN NoMatch
        ELSE IF At(s, e3) = "," /\ ea # 0
             THEN [ok |-> TRUE, g1 |-> SubSeq(s, q1, e1 - 1), g2 |-> SubSeq(s, q2, e2 - 1),
                   g3 |-> SubSeq(s, q3, e3 - 1), has4 |-> TRUE, g4 |-> SubSeq(s, qa, ea - 1)]
             ELSE IF At(s, e3) = ")"
                  THEN [ok |-> TRUE, g1 |-> SubSeq(s, q1, e1 - 1), g2 |-> SubSeq(s, q2, e2 - 1),
                        g3 |-> SubSeq(s, q3, e3 - 1), has4 |-> FALSE, g4 |-> ""]
                  ELSE NoMatch

\* colorStr.match(...): the leftmost position where the expression matches.
Least(S) == CHOOSE i \in S : \A j \in S : i <= j

RgbRegexAtFirst(s, starts) == IF starts = {} THEN NoMatch ELSE RgbRegexAt(s, Least(starts))

RgbRegexMatch(s) == RgbRegexAtFirst(s, {i \in 1..Len(s) : RgbRegexAt(s, i).ok})

\* a: match[4] ? Number.parseFloat(match[4]) : 1
OneIfFalsy(v) == IF v.nan \/ v.num = 0 THEN Num(1, 1) ELSE v

AlphaOfMatchDropsZero(m) == OneIfFalsy(IF m.has4 THEN parseFloat(m.g4) ELSE NaN)

AlphaOfMatch(m) == IF m.has4 /\ m.g4 # "" THEN parseFloat(m.g4) ELSE Num(1, 1)

RgbaOfMatch(match) ==
    IF ~match.ok THEN [r |-> Num(0, 1), g |-> Num(0, 1), b |-> Num(0, 1), a |-> Num(1, 1)]
    ELSE [r |-> parseInt(match.g1, 10),
          g |-> parseInt(match.g2, 10),
          b |-> parseInt(match.g3, 10),
          a |-> AlphaOfMatch(match)]

parseRgbString(colorStr) == RgbaOfMatch(RgbRegexMatch(colorStr))

\* color.replace("#", ""): the first "#" removed.
RemoveAt(s, i) ==
    IF i > Len(s) THEN s ELSE SubSeq(s, 1, i - 1) \o SubSeq(s, i + 1, Len(s))

RemoveHash(color) ==
    RemoveAt(color, Least({i \in 1..(Len(color) + 1) : i > Len(color) \/ At(color, i) = "#"}))

HexChannels(c) ==
    IF Len(c) = 3
    THEN [r |-> parseInt(At(c, 1) \o At(c, 1), 16),
          g |-> parseInt(At(c, 2) \o At(c, 2), 16),
          b |-> parseInt(At(c, 3) \o At(c, 3), 16)]
    ELSE [r |-> parseInt(Slice(c, 0, 2), 16),
          g |-> parseInt(Slice(c, 2, 4), 16),
          b |-> parseInt(Slice(c, 4, 6), 16)]

parseHexColor(color) == HexChannels(RemoveHash(color))

\* ((c + 0.055) / 1.055) ** 2.4 in ten-thousandths, c = channel / 255, for the
\* channel values of the colours drawn below (the power is not an integer
\* computation, so its values are tabulated).
Pow24(channel) ==
    CASE channel = 11 -> 33
      [] channel = 64 -> 513
      [] channel = 128 -> 2159
      [] channel = 200 -> 5776
      [] channel = 255 -> 10000

\* luminance(c) of getContrast, in ten-thousandths, for c = channel / 255:
\* c <= 0.03928 ? c / 12.92 : ((c + 0.055) / 1.055) ** 2.4
luminance(channel) ==
    IF channel * 100000 <= 3928 * 255
    THEN (channel * 1000000) \div (255 * 1292)
    ELSE Pow24(channel)

\* l1 / l2 of getContrast, in ten-thousandths.
RelativeLuminance(c) ==
    (luminance(c.r.num) * 2126 + luminance(c.g.num) * 7152 + luminance(c.b.num) * 722)
        \div 10000

Max(a, b) == IF a >= b THEN a ELSE b

Min(a, b) == IF a <= b THEN a ELSE b

\* getContrast(fg, bg) in thousandths; NaN when a channel is NaN.
ContrastOf(l1, l2) == Num(((Max(l1, l2) + 500) * 1000) \div (Min(l1, l2) + 500), 1000)

getContrast(fg, bg) ==
    IF fg.r.nan \/ fg.g.nan \/ fg.b.nan \/ bg.r.nan \/ bg.g.nan \/ bg.b.nan THEN NaN
    ELSE ContrastOf(RelativeLuminance(fg), RelativeLuminance(bg))

(***************************************************************************)
(* calculateButtonScore.  Scores are JavaScript numbers in thousandths.    *)
(***************************************************************************)
\* The words of each alternative of the keyword expressions; between two
\* words the expression has \s*.
PrimaryCtaPhrases ==
    { <<"add", "to", "cart">>, <<"add", "to", "bag">>, <<"add", "to", "basket">>,
      <<"buy", "now">>, <<"checkout">>, <<"purchase">>, <<"subscribe">>,
      <<"shop", "now">>, <<"get", "started">>, <<"order", "now">> }

SecondaryCtaPhrases == { <<"add", "to", "wishlist">> }

CookiePhrases == { <<"accept", "cookies">>, <<"accept", "all">> }

RECURSIVE PhraseAt(_, _, _)
PhraseAt(s, i, words) ==
    /\ StartsWithAt(s, i, Head(words))
    /\ \/ Len(words) = 1
       \/ PhraseAt(s, SkipWs(s, i + Len(Head(words))), Tail(words))

\* regex.test(text) for a case-insensitive alternation of phrases.
SomePhraseIn(phrases, s) == \E i \in 1..Len(s) : \E ph \in phrases : PhraseAt(s, i, ph)

RegexTest(phrases, text) == SomePhraseIn(phrases, ToLowerCase(text))

\* The colour the contrast is computed for, or the low-alpha rejection.
Rejected == [reject |-> TRUE, rgb |-> [r |-> NaN, g |-> NaN, b |-> NaN]]

Opaque(rgb) == [reject |-> FALSE, rgb |-> rgb]

IsRgbPrefix(s) == ToLowerCase(Slice(s, 0, 3)) = "rgb"

IsHexColor(s) ==
    /\ At(s, 1) = "#"
    /\ Len(s) \in 4..7
    /\ \A i \in 2..Len(s) : At(s, i) \in Digits \cup HexLetters

RejectLowAlpha(p) ==
    IF JsLess(p.a, Num(3, 10)) THEN Rejected ELSE Opaque([r |-> p.r, g |-> p.g, b |-> p.b])

ButtonColour(backgroundColor) ==
    IF IsRgbPrefix(backgroundColor)
    THEN RejectLowAlpha(parseRgbString(backgroundColor))
    ELSE IF IsHexColor(backgroundColor)
    THEN Opaque(parseHexColor(backgroundColor))
    ELSE IF backgroundColor = "transparent" \/ backgroundColor = "rgba(0, 0, 0, 0)"
    THEN Rejected
    ELSE Opaque([r |-> Num(255, 1), g |-> Num(255, 1), b |-> Num(255, 1)])

\* The keyword buckets, in thousandths: the first expression that matches.
KeywordScoreAllBuckets(textContent) ==
    (IF RegexTest(PrimaryCtaPhrases, textContent) THEN 25000 ELSE 0)
    + (IF RegexTest(SecondaryCtaPhrases, textContent) THEN 15000 ELSE 0)
    - (IF RegexTest(CookiePhrases, textContent) THEN 20000 ELSE 0)

KeywordScore(textContent) ==
    IF RegexTest(PrimaryCtaPhrases, textContent) THEN 25000
    ELSE IF RegexTest(SecondaryCtaPhrases, textContent) THEN 15000
    ELSE IF RegexTest(CookiePhrases, textContent) THEN 0 - 20000
    ELSE 0

SizeScore(boundingRect) ==
    IF boundingRect.width > 120 /\ boundingRect.height > 35 THEN 5000 ELSE 0

ShortTextScore(textContent) == IF Len(Trim(textContent)) < 3 THEN 0 - 5000 ELSE 0

ToRgb(c) == [r |-> Num(c.r, 1), g |-> Num(c.g, 1), b |-> Num(c.b, 1)]

ScoreFromContrast(btnStyle, contrastRatio) ==
    IF contrastRatio.nan THEN NaN
    ELSE Num(0 - 1000 + contrastRatio.num * 3
             + KeywordScore(btnStyle.textContent)
             + SizeScore(btnStyle.boundingRect)
             + ShortTextScore(btnStyle.textContent), 1000)

ScoreOfColour(btnStyle, colour, bgRGB) ==
    IF colour.reject THEN Num(0 - 1000, 1000)
    ELSE ScoreFromContrast(btnStyle, getContrast(colour.rgb, ToRgb(bgRGB)))

calculateButtonScore(btnStyle, bgRGB) ==
    ScoreOfColour(btnStyle, ButtonColour(btnStyle.backgroundColor), bgRGB)

(***************************************************************************)
(* Module constants of get-styles.ts.                                      *)
(***************************************************************************)
DEFAULT_BUTTON_STYLE ==
    [backgroundColor |-> "#000000",
     textColor       |-> "#FFFFFF",
     borderStyle     |-> "none",
     borderWidth     |-> "0",
     borderColor     |-> "#000000",
     borderRadius    |-> "0",
     textTransform   |-> "none",
     fontFamily      |-> "system-ui, -apple-system, BlinkMacSystemFont, 'Segoe UI', Roboto, Oxygen, Ubuntu, Cantarell, 'Open Sans', 'Helvetica Neue', sans-serif",
     fontWeight      |-> "normal",
     padding         |-> "0"]

THEMES ==
    << [name |-> "Dawn", schema_name |-> "Dawn", theme_store_id |-> 887,
        buttonSelector |-> ".button--primary"],
       [name |-> "Prestige", schema_name |-> "Prestige", theme_store_id |-> 855,
        buttonSelector |-> ".Button--primary"],
       [name |-> "Broadcast", schema_name |-> "Broadcast", theme_store_id |-> 868,
        buttonSelector |-> ".btn--primary"],
       [name |-> "Palo Alto", schema_name |-> "palo-alto", theme_store_id |-> 777,
        buttonSelector |-> ".btn--primary"],
       [name |-> "Modular", schema_name |-> "modular", theme_store_id |-> 849,
        buttonSelector |-> ".btn--primary"] >>

DEFAULT_OPTIONS == [useProductPage |-> "true", removeOverlays |-> "false"]

\* null / undefined in a string-typed slot, and in a button-typed slot.
Null == "<null>"

NullButton == [null |-> TRUE]

\* value ?? fallback, for an option that is "true", "false" or "undefined".
Nullish(value, fallback) == IF value = "undefined" THEN fallback ELSE value

\* Array.prototype.find over THEMES: the first of the indices (hits) of the
\* entries that satisfy the callback, 0 when none does.
FindTheme(hits) ==
    IF hits = {} THEN 0 ELSE CHOOSE i \in hits : \A j \in hits : i <= j

(***************************************************************************)
(* The rendered page.  An element carries the attributes the selectors of  *)
(* the source read and the computed style getComputedStyle reports.        *)
(***************************************************************************)
\* The CSSOM serialisation of a colour; alpha is [num, den].  "canonical" is
\* what getComputedStyle reports; the other syntaxes are further spellings
\* of the same colour.
DropFirst(s) == SubSeq(s, 2, Len(s))

AlphaString(a, leadingZero) ==
    IF a.num = 0 THEN "0"
    ELSE IF a.num = a.den THEN "1"
    ELSE (IF leadingZero THEN "0." ELSE ".") \o DropFirst(NatToString(a.den + a.num))

CssColorOf(c, syntax, r, g, b, alpha) ==
    CASE syntax = "canonical" ->
           IF c.a.num = c.a.den
           THEN "rgb(" \o r \o ", " \o g \o ", " \o b \o ")"
           ELSE "rgba(" \o r \o ", " \o g \o ", " \o b \o ", " \o alpha \o ")"
      [] syntax = "compact" ->
           "rgba(" \o r \o "," \o g \o "," \o b \o "," \o alpha \o ")"
      [] syntax = "padded" ->
           "rgba( " \o r \o ",  " \o g \o ",\t" \o b \o ",  " \o alpha \o ")"
      [] syntax = "bare-fraction" ->
           "rgba(" \o r \o ", " \o g \o ", " \o b \o ", " \o AlphaString(c.a, FALSE) \o ")"
      [] syntax = "rgb-with-alpha" ->
           "rgb(" \o r \o ", " \o g \o ", " \o b \o ", " \o alpha \o ")"
      [] syntax = "space-before-comma" ->
           "rgba(" \o r \o " , " \o g \o " , " \o b \o " , " \o alpha \o ")"
      [] syntax = "hex" -> rgbToHex(c.r, c.g, c.b)
      [] syntax = "keyword" ->
           IF c.a.num = 0 THEN "transparent"
           ELSE IF c.r = 0 /\ c.g = 0 /\ c.b = 0 THEN "black" ELSE "white"

CssColor(c, syntax) ==
    CssColorOf(c, syntax, NatToString(c.r), NatToString(c.g), NatToString(c.b),
               AlphaString(c.a, TRUE))

\* window.getComputedStyle(elem) for the properties the source reads.
ComputedStyle(el) ==
    [display         |-> el.display,
     visibility      |-> el.visibility,
     opacity         |-> el.opacity,
     backgroundColor |-> CssColor(el.background, el.colorSyntax),
     color           |-> el.color,
     borderStyle     |-> el.borderStyle,
     borderWidth     |-> el.borderWidth,
     borderColor     |-> el.borderColor,
     borderRadius    |-> el.borderRadius,
     textTransform   |-> el.textTransform,
     fontFamily      |-> el.fontFamily,
     fontWeight      |-> el.fontWeight,
     padding         |-> el.padding,
     position        |-> el.position,
     zIndex          |-> el.zIndex]

\* document.querySelector(All) for the selector shapes the source uses: a
\* class selector, an attribute-substring selector on class, a role
\* attribute selector, a type selector.
MatchesSelector(el, selector) ==
    IF At(selector, 1) = "."
    THEN el.class = SubSeq(selector, 2, Len(selector))
    ELSE el.tag = selector

\* The element's style and geometry as both getButtons and
\* findButtonBasedOnTheme return it from the page.
OrDefault(s, fallback) == IF s = "" THEN fallback ELSE s

ButtonOf(el, style) ==
    [backgroundColor |-> style.backgroundColor,
     textColor       |-> style.color,
     borderStyle     |-> style.borderStyle,
     borderWidth     |-> style.borderWidth,
     borderColor     |-> style.borderColor,
     borderRadius    |-> style.borderRadius,
     textTransform   |-> OrDefault(ToLowerCase(style.textTransform), "none"),
     fontFamily      |-> style.fontFamily,
     fontWeight      |-> style.fontWeight,
     padding         |-> style.padding,
     boundingRect    |-> [width |-> el.width, height |-> el.height],
     textContent     |-> OrDefault(ToLowerCase(Trim(el.textContent)), "")]

ExtractButton(el) == ButtonOf(el, ComputedStyle(el))

VisibleWith(elem, style) ==
    /\ style.display # "none"
    /\ style.visibility # "hidden"
    /\ JsLess(Num(0, 1), parseFloat(OrDefault(style.opacity, "1")))
    /\ elem.width > 0
    /\ elem.height > 0

isVisible(elem) == VisibleWith(elem, ComputedStyle(elem))

\* getButtons: the four selector lists concatenated, the visible ones mapped.
getButtons(elements) ==
    LET IsButtonTag(el)   == el.tag = "button"
        IsBtnLink(el)     == el.tag = "a" /\ Contains(el.class, "btn")
        IsButtonLink(el)  == el.tag = "a" /\ Contains(el.class, "button")
        IsRoleButton(el)  == el.role = "button"
        btns == SelectSeq(elements, IsButtonTag)
                \o SelectSeq(elements, IsBtnLink)
                \o SelectSeq(elements, IsButtonLink)
                \o SelectSeq(elements, IsRoleButton)
        vis  == SelectSeq(btns, isVisible)
    IN  [i \in 1..Len(vis) |-> ExtractButton(vis[i])]

\* The first page.evaluate of getStyles, DOM part: every img, video and
\* [style*="background-image"] element gets a transparent background and
\* opacity 0 as inline style.
IsMedia(el) ==
    el.tag \in {"img", "video"} \/ Contains(el.inlineStyle, "background-image")

HideMedia(elements) ==
    [i \in 1..Len(elements) |->
        IF IsMedia(elements[i])
        THEN [elements[i] EXCEPT
                !.background  = [r |-> 0, g |-> 0, b |-> 0, a |-> [num |-> 0, den |-> 1]],
                !.colorSyntax = "canonical",
                !.opacity     = "0",
                !.inlineStyle = "background: transparent; opacity: 0;"]
        ELSE elements[i]]

\* The first page.evaluate of getStyles, theme part: the name of the first
\* THEMES entry whose schema_name or theme_store_id equals the descriptor's.
DetectTheme(shopify) ==
    LET Test(t) == \/ t.schema_name = shopify.schema_name
                   \/ t.theme_store_id = shopify.theme_store_id
        i == FindTheme({k \in 1..Len(THEMES) : Test(THEMES[k])})
    IN  IF ~shopify.present \/ i = 0 THEN Null ELSE THEMES[i].name

\* removeOverlays, page side.
IsOverlay(el) ==
    \/ Contains(el.class, "cookie") \/ Contains(el.class, "overlay")
    \/ Contains(el.class, "modal") \/ Contains(el.class, "banner")
    \/ Contains(el.ariaLabel, "banner") \/ Contains(el.ariaLabel, "cookie")
    \/ Contains(el.ariaLabel, "modal")
    \/ el.id = "gdpr-banner"
    \/ el.class = "cc-banner"
    \/ el.role \in {"dialog", "alertdialog"}
    \/ el.class = "ReactModal__Overlay"
    \/ (el.tag = "div" /\ Contains(el.inlineStyle, "fixed"))
    \/ (el.tag = "div" /\ Contains(el.inlineStyle, "sticky"))

IsFullScreenOverlay(el) ==
    /\ el.bodyChild
    /\ ComputedStyle(el).position = "fixed"
    /\ ComputedStyle(el).zIndex = "9999"
    /\ el.height > 100

removeOverlays(elements) ==
    LET hidden == [i \in 1..Len(elements) |->
                     IF IsOverlay(elements[i])
                     THEN [elements[i] EXCEPT !.display = "none", !.opacity = "0"]
                     ELSE elements[i]]
        Stays(el) == ~IsFullScreenOverlay(el)
    IN  SelectSeq(hidden, Stays)

\* findButtonBasedOnTheme.  schemaName is the name the first evaluate
\* returned.  The closure handed to page.evaluate reads the free variable
\* theme, which inside the page is the page's own global of that name
\* (global): unbound there, the evaluation throws a ReferenceError.
ThemeBySchemaName(schemaName) ==
    LET Test(t) == t.schema_name = schemaName
    IN  FindTheme({k \in 1..Len(THEMES) : Test(THEMES[k])})

findButtonBasedOnTheme(elements, global, schemaName) ==
    IF schemaName = Null \/ ThemeBySchemaName(schemaName) = 0
    THEN [evaluated |-> FALSE, threw |-> FALSE, queried |-> FALSE, selector |-> "",
          button |-> NullButton]
    ELSE IF ~global.bound
    THEN [evaluated |-> TRUE, threw |-> TRUE, queried |-> FALSE, selector |-> "",
          button |-> NullButton]
    ELSE LET sel == global.buttonSelector
             Test(el) == MatchesSelector(el, sel)
             hits == SelectSeq(elements, Test)
         IN  [evaluated |-> TRUE, threw |-> FALSE, queried |-> TRUE, selector |-> sel,
              button |-> IF Len(hits) = 0 THEN NullButton ELSE ExtractButton(hits[1])]

\* getProductPageUrl.  The feed is what fetch(...).then(res => res.json())
\* gives: a rejection, or a JSON value.  Dates are day numbers (the
\* millisecond arithmetic of the source, divided by 86 400 000).
QualifiesAtAnyAge(product, today) ==
    /\ product.images > 0
    /\ product.published_at # 0

Qualifies(product, today) ==
    /\ product.images > 0
    /\ product.published_at # 0
    /\ product.published_at < today - 30

\* productsJson.products.find(...): a product without an images array makes
\* the callback throw (TypeError), which ends the search.
RECURSIVE FindProduct(_, _, _)
FindProduct(products, i, today) ==
    IF i > Len(products) THEN [threw |-> FALSE, index |-> 0]
    ELSE IF ~products[i].hasImages THEN [threw |-> TRUE, index |-> 0]
    ELSE IF Qualifies(products[i], today) THEN [threw |-> FALSE, index |-> i]
    ELSE FindProduct(products, i + 1, today)

getProductPageUrl(url, feed, today) ==
    IF feed.rejects \/ ~feed.hasProducts THEN url
    ELSE LET found == FindProduct(feed.products, 1, today)
             productHandle == IF found.index = 0 THEN ""
                              ELSE feed.products[found.index].handle
         IN  IF found.threw \/ productHandle = "" THEN url
             ELSE url \o "/products/" \o productHandle

\* The promise chain on Vibrant's palette: Object.values(palette) sorted by
\* population, largest first (a missing swatch counts 0), mapped to hex,
\* missing ones dropped.
RECURSIVE SortByPopulation(_)
SortByPopulation(swatches) ==
    IF Len(swatches) = 0 THEN <<>>
    ELSE LET Pop(i) == IF swatches[i].missing THEN 0 ELSE swatches[i].population
             top == CHOOSE i \in 1..Len(swatches) :
                        /\ \A j \in 1..Len(swatches) : Pop(j) <= Pop(i)
                        /\ \A j \in 1..(i - 1) : Pop(j) < Pop(i)
             rest == [k \in 1..(Len(swatches) - 1) |->
                        IF k < top THEN swatches[k] ELSE swatches[k + 1]]
         IN  <<swatches[top]>> \o SortByPopulation(rest)

PaletteOf(swatches) ==
    LET Present(sw) == ~sw.missing
        sorted == SelectSeq(SortByPopulation(swatches), Present)
    IN  [i \in 1..Len(sorted) |-> sorted[i].hex]

\* The reduce over the candidates: the running best is replaced only by a
\* strictly greater score; it starts at { button: null, score: -1 }.
KeepLaterOnTie(best, btnStyle, currentScore) ==
    IF ~JsLess(currentScore, best.score) /\ ~currentScore.nan
    THEN [button |-> btnStyle, score |-> currentScore]
    ELSE best

ReduceStep(best, btnStyle, currentScore) ==
    IF JsLess(best.score, currentScore)
    THEN [button |-> btnStyle, score |-> currentScore]
    ELSE best

RECURSIVE ReduceButtons(_, _, _, _)
ReduceButtons(btns, bg, i, best) ==
    IF i > Len(btns) THEN best
    ELSE ReduceButtons(btns, bg, i + 1,
                       ReduceStep(best, btns[i], calculateButtonScore(btns[i], bg)))

\* themePrimaryButton ?? primaryButton ?? DEFAULT_BUTTON_STYLE
MergeWithoutDefault(themeButton, bestButton) ==
    IF themeButton # NullButton THEN themeButton ELSE bestButton

MergePrimaryButton(themeButton, bestButton) ==
    IF themeButton # NullButton THEN themeButton
    ELSE IF bestButton # NullButton THEN bestButton
    ELSE DEFAULT_BUTTON_STYLE

(***************************************************************************)
(* Inputs: what the caller, the shop and the page can be.                  *)
(***************************************************************************)
MaxElements == 2

MaxProducts == 2

Url == "https://shop.example"

Clock == [today |-> 1000]

\* The options argument: omitted (DEFAULT_OPTIONS), {}, and objects that set
\* one or both options.
Options ==
    { DEFAULT_OPTIONS,
      [useProductPage |-> "undefined", removeOverlays |-> "undefined"],
      [useProductPage |-> "false", removeOverlays |-> "undefined"],
      [useProductPage |-> "undefined", removeOverlays |-> "true"],
      [useProductPage |-> "false", removeOverlays |-> "true"] }

Product(handle, hasImages, images, publishedAt) ==
    [handle |-> handle, hasImages |-> hasImages, images |-> images,
     published_at |-> publishedAt]

\* Products published 50 and 40 days ago, exactly 30 days ago and yesterday;
\* one without images, one never published, one without an images array, one
\* without a handle.
Products ==
    { Product("older-product", TRUE, 1, Clock.today - 50),
      Product("old-product", TRUE, 2, Clock.today - 40),
      Product("edge-product", TRUE, 1, Clock.today - 30),
      Product("new-product", TRUE, 1, Clock.today - 1),
      Product("bare-product", TRUE, 0, Clock.today - 40),
      Product("draft-product", TRUE, 1, 0),
      Product("broken-product", FALSE, 0, Clock.today - 40),
      Product("", TRUE, 1, Clock.today - 40) }

RECURSIVE SeqsUpTo(_, _)
SeqsUpTo(S, n) ==
    IF n = 0 THEN {<<>>}
    ELSE LET shorter == SeqsUpTo(S, n - 1)
         IN  shorter \cup {Append(q, x) : q \in shorter, x \in S}

NoFeed == [rejects |-> FALSE, hasProducts |-> FALSE, products |-> <<>>, fetched |-> FALSE]

Feeds ==
    { [rejects |-> TRUE, hasProducts |-> FALSE, products |-> <<>>, fetched |-> TRUE],
      [rejects |-> FALSE, hasProducts |-> FALSE, products |-> <<>>, fetched |-> TRUE] }
    \cup { [rejects |-> FALSE, hasProducts |-> TRUE, products |-> ps, fetched |-> TRUE] :
             ps \in SeqsUpTo(Products, MaxProducts) }

Rgba(r, g, b, n, d) == [r |-> r, g |-> g, b |-> b, a |-> [num |-> n, den |-> d]]

BaseElement ==
    [tag |-> "button", class |-> "", id |-> "", role |-> "", ariaLabel |-> "",
     inlineStyle |-> "", bodyChild |-> FALSE,
     display |-> "block", visibility |-> "visible", opacity |-> "1",
     position |-> "static", zIndex |-> "auto", width |-> 200, height |-> 50,
     background |-> Rgba(0, 0, 0, 1, 1), colorSyntax |-> "canonical",
     color |-> "rgb(255, 255, 255)", borderStyle |-> "none", borderWidth |-> "0px",
     borderColor |-> "rgb(255, 255, 255)", borderRadius |-> "4px",
     textTransform |-> "Uppercase", fontFamily |-> "Helvetica, sans-serif",
     fontWeight |-> "700", padding |-> "12px 24px",
     textContent |-> "  Add to Cart "]

\* The elements a page is built from: a theme-classed add-to-cart button; a
\* second call to action with the same score; a small theme-classed
\* button-like link; a white cookie button inside a consent banner; a
\* transparent full-screen modal that acts as a button; a theme-classed link
\* with a background image.
PageElements ==
    { [BaseElement EXCEPT !.class = "button--primary"],
      [BaseElement EXCEPT !.textContent = "Shop now", !.fontWeight = "400"],
      [BaseElement EXCEPT !.tag = "a", !.class = "btn--primary",
                          !.textContent = "Buy Now",
                          !.background = Rgba(128, 128, 128, 1, 1),
                          !.width = 100, !.height = 30, !.textTransform = ""],
      [BaseElement EXCEPT !.class = "cookie-accept", !.textContent = "Accept All",
                          !.background = Rgba(255, 255, 255, 1, 1)],
      [BaseElement EXCEPT !.tag = "div", !.class = "popup", !.role = "button",
                          !.bodyChild = TRUE, !.position = "fixed", !.zIndex = "9999",
                          !.height = 600, !.background = Rgba(0, 0, 0, 0, 1),
                          !.textContent = "Subscribe"],
      [BaseElement EXCEPT !.tag = "a", !.class = "Button--primary", !.role = "button",
                          !.inlineStyle = "background-image: url(hero.png)",
                          !.textContent = "Get Started"] }

Doms == SeqsUpTo(PageElements, MaxElements)

NoShopify == [present |-> FALSE, schema_name |-> "", theme_store_id |-> 0]

\* window.Shopify.theme: each table entry's own descriptor, one matching by
\* store id only, one by schema name only, one whose schema name and store id
\* belong to different entries, one matching nothing, and no descriptor.
ShopifyThemes ==
    { NoShopify }
    \cup { [present |-> TRUE, schema_name |-> THEMES[i].schema_name,
            theme_store_id |-> THEMES[i].theme_store_id] : i \in 1..Len(THEMES) }
    \cup { [present |-> TRUE, schema_name |-> "Custom", theme_store_id |-> 855],
           [present |-> TRUE, schema_name |-> "modular", theme_store_id |-> 0],
           [present |-> TRUE, schema_name |-> "Broadcast", theme_store_id |-> 887],
           [present |-> TRUE, schema_name |-> "Custom", theme_store_id |-> 0] }

\* The page's own global named theme, as the closure of
\* findButtonBasedOnTheme finds it: unbound, an object without a
\* buttonSelector (String(undefined) is then the selector), or an object that
\* has one.
PageGlobals ==
    { [bound |-> FALSE, buttonSelector |-> ""],
      [bound |-> TRUE, buttonSelector |-> "undefined"],
      [bound |-> TRUE, buttonSelector |-> ".button--primary"] }

\* ColorThief's dominant colour of the screenshot.
PageBackgrounds == { [r |-> 255, g |-> 255, b |-> 255] }

Swatch(hex, population) == [missing |-> FALSE, hex |-> hex, population |-> population]

NoSwatch == [missing |-> TRUE, hex |-> "", population |-> 0]

VibrantPalettes ==
    { << Swatch("#cc3300", 40), NoSwatch, Swatch("#112233", 90), Swatch("#eeeeee", 40) >> }

(***************************************************************************)
(* One call of getStyles(browser, url, options).                           *)
(***************************************************************************)
VARIABLES
    pc,                  \* where the call is
    options,             \* the options argument
    productsJson,        \* getProductPageUrl's feed, while that call is live
    targetUrl,           \* Null until getProductPageUrl (or url) has resolved
    pageOpen,            \* the page of browser.newPage() exists and is not closed
    shopify,             \* window.Shopify.theme of the loaded page
    pageGlobal,          \* the loaded page's own global named theme
    dom,                 \* the loaded page's elements, in document order
    theme,               \* theme, as the first page.evaluate returned it
    attempts,            \* how often each external operation was attempted
    settled,             \* the members of the second Promise.all that fulfilled
    palette,
    bgRGB,
    buttons,
    themeQuery,          \* the selector findButtonBasedOnTheme queried the page with
    themePrimaryButton,
    scores,              \* currentScore of each candidate, in reduce order
    result               \* what the call settled with

vars == << pc, options, productsJson, targetUrl, pageOpen, shopify, pageGlobal, dom,
           theme, attempts, settled, palette, bgRGB, buttons, themeQuery,
           themePrimaryButton, scores, result >>

Pending == [kind |-> "pending"]

NoQuery == [queried |-> FALSE, selector |-> ""]

Unbound == [bound |-> FALSE, buttonSelector |-> ""]

Tasks == {"getPalette", "getColor", "getButtons", "findButtonBasedOnTheme"}

Steps ==
    {"fetch", "newPage", "mkdirSync", "setRequestInterception", "goto", "evaluate",
     "removeOverlays", "screenshot"} \cup Tasks

Init ==
    /\ pc = "start"
    /\ options \in Options
    /\ productsJson = NoFeed
    /\ targetUrl = Null
    /\ pageOpen = FALSE
    /\ shopify = NoShopify
    /\ pageGlobal = Unbound
    /\ dom = <<>>
    /\ theme = Null
    /\ attempts = [s \in Steps |-> 0]
    /\ settled = {}
    /\ palette = <<>>
    /\ bgRGB = [r |-> 0, g |-> 0, b |-> 0]
    /\ buttons = <<>>
    /\ themeQuery = NoQuery
    /\ themePrimaryButton = NullButton
    /\ scores = <<>>
    /\ result = Pending

Attempt(step) == attempts' = [attempts EXCEPT ![step] = @ + 1]

\* Where a rejected await leaves the call: the error propagates through the
\* try/finally (whose finally block is empty) to the caller.
RetryStep(step, at) == [pc |-> at, result |-> Pending]

Rejection(step, at) == [pc |-> "failed", result |-> [kind |-> "error", error |-> step]]

\* The await of an external operation rejects.
Throws(step) ==
    /\ pc' = Rejection(step, pc).pc
    /\ result' = Rejection(step, pc).result

UseProductPage == Nullish(options.useProductPage, DEFAULT_OPTIONS.useProductPage) = "true"

\* The array handed to the first Promise.all is evaluated: getProductPageUrl
\* (when asked for) and browser.newPage() are called.
Start ==
    /\ pc = "start"
    /\ pc' = "opening"
    /\ attempts' = [attempts EXCEPT !["fetch"] = IF UseProductPage THEN @ + 1 ELSE @,
                                    !["newPage"] = @ + 1]
    /\ UNCHANGED << options, productsJson, targetUrl, pageOpen, shopify, pageGlobal, dom,
                    theme, settled, palette, bgRGB, buttons, themeQuery,
                    themePrimaryButton, scores, result >>

\* (options.useProductPage ?? DEFAULT_OPTIONS.useProductPage) ? getProductPageUrl(url) : url
\* getProductPageUrl catches whatever its body throws, so this member never rejects.
ResolveTargetUrl ==
    /\ pc = "opening"
    /\ targetUrl = Null
    /\ IF UseProductPage
       THEN \E feed \in Feeds :
               /\ productsJson' = feed
               /\ targetUrl' = getProductPageUrl(Url, feed, Clock.today)
       ELSE /\ targetUrl' = Url
            /\ UNCHANGED productsJson
    /\ UNCHANGED << pc, options, pageOpen, shopify, pageGlobal, dom, theme, attempts,
                    settled, palette, bgRGB, buttons, themeQuery, themePrimaryButton,
                    scores, result >>

\* browser.newPage() settles.
NewPage ==
    /\ pc = "opening"
    /\ ~pageOpen
    /\ \/ /\ pageOpen' = TRUE
          /\ UNCHANGED << pc, result >>
       \/ /\ Throws("newPage")
          /\ UNCHANGED pageOpen
    /\ UNCHANGED << options, productsJson, targetUrl, shopify, pageGlobal, dom, theme,
                    attempts, settled, palette, bgRGB, buttons, themeQuery,
                    themePrimaryButton, scores >>

\* The first Promise.all has fulfilled; tempDir and screenshotFile are made.
\* getProductPageUrl has returned, so its feed is gone.
Setup ==
    /\ pc = "opening"
    /\ targetUrl # Null
    /\ pageOpen
    /\ productsJson' = NoFeed
    /\ Attempt("mkdirSync")
    /\ \/ /\ pc' = "intercept"
          /\ UNCHANGED result
       \/ Throws("mkdirSync")
    /\ UNCHANGED << options, targetUrl, pageOpen, shopify, pageGlobal, dom, theme,
                    settled, palette, bgRGB, buttons, themeQuery, themePrimaryButton,
                    scores >>

\* page.setRequestInterception(true); page.on("request", ...)
SetRequestInterception ==
    /\ pc = "intercept"
    /\ Attempt("setRequestInterception")
    /\ \/ /\ pc' = "goto"
          /\ UNCHANGED result
       \/ Throws("setRequestInterception")
    /\ UNCHANGED << options, productsJson, targetUrl, pageOpen, shopify, pageGlobal,
                    dom, theme, settled, palette, bgRGB, buttons, themeQuery,
                    themePrimaryButton, scores >>

\* page.goto(targetUrl, { waitUntil: "domcontentloaded", timeout: 10000 })
Goto ==
    /\ pc = "goto"
    /\ Attempt("goto")
    /\ \/ /\ pc' = "evaluate"
          /\ UNCHANGED result
       \/ Throws("goto")
    /\ UNCHANGED << options, productsJson, targetUrl, pageOpen, shopify, pageGlobal,
                    dom, theme, settled, palette, bgRGB, buttons, themeQuery,
                    themePrimaryButton, scores >>

\* if (options.removeOverlays ?? DEFAULT_OPTIONS.removeOverlays): what follows
\* the first page.evaluate, removeOverlays(page) or at once the screenshot.
AfterEvaluateSkipsOverlays(opts) == "screenshot"

AfterEvaluate(opts) ==
    IF Nullish(opts.removeOverlays, DEFAULT_OPTIONS.removeOverlays) = "true"
    THEN "removeOverlays" ELSE "screenshot"

\* The first page.evaluate: hide the media, read pageHeight and the theme.
\* This is the first look at the loaded page, whose descriptor and elements
\* are whatever the shop serves.
Evaluate ==
    /\ pc = "evaluate"
    /\ Attempt("evaluate")
    /\ \/ /\ \E sh \in ShopifyThemes, d \in Doms :
                /\ shopify' = sh
                /\ dom' = HideMedia(d)
                /\ theme' = DetectTheme(sh)
          /\ pc' = AfterEvaluate(options)
          /\ UNCHANGED result
       \/ /\ Throws("evaluate")
          /\ UNCHANGED << shopify, dom, theme >>
    /\ UNCHANGED << options, productsJson, targetUrl, pageOpen, pageGlobal, settled,
                    palette, bgRGB, buttons, themeQuery, themePrimaryButton, scores >>

\* await removeOverlays(page): the page-side hiding, then waitForTimeout(500).
RemoveOverlays ==
    /\ pc = "removeOverlays"
    /\ Attempt("removeOverlays")
    /\ \/ /\ dom' = removeOverlays(dom)
          /\ pc' = "screenshot"
          /\ UNCHANGED result
       \/ /\ Throws("removeOverlays")
          /\ UNCHANGED dom
    /\ UNCHANGED << options, productsJson, targetUrl, pageOpen, shopify, pageGlobal,
                    theme, settled, palette, bgRGB, buttons, themeQuery,
                    themePrimaryButton, scores >>

\* page.screenshot({ path, clip, captureBeyondViewport: false })
Screenshot ==
    /\ pc = "screenshot"
    /\ Attempt("screenshot")
    /\ \/ /\ pc' = "extract"
          /\ UNCHANGED result
       \/ Throws("screenshot")
    /\ UNCHANGED << options, productsJson, targetUrl, pageOpen, shopify, pageGlobal,
                    dom, theme, settled, palette, bgRGB, buttons, themeQuery,
                    themePrimaryButton, scores >>

\* The four members of the second Promise.all settle in any order; the first
\* rejection rejects the whole await.
GetPalette ==
    /\ pc = "extract"
    /\ "getPalette" \notin settled
    /\ Attempt("getPalette")
    /\ \/ /\ \E swatches \in VibrantPalettes : palette' = PaletteOf(swatches)
          /\ settled' = settled \cup {"getPalette"}
          /\ UNCHANGED << pc, result >>
       \/ /\ Throws("getPalette")
          /\ UNCHANGED << palette, settled >>
    /\ UNCHANGED << options, productsJson, targetUrl, pageOpen, shopify, pageGlobal,
                    dom, theme, bgRGB, buttons, themeQuery, themePrimaryButton, scores >>

GetColor ==
    /\ pc = "extract"
    /\ "getColor" \notin settled
    /\ Attempt("getColor")
    /\ \/ /\ bgRGB' \in PageBackgrounds
          /\ settled' = settled \cup {"getColor"}
          /\ UNCHANGED << pc, result >>
       \/ /\ Throws("getColor")
          /\ UNCHANGED << bgRGB, settled >>
    /\ UNCHANGED << options, productsJson, targetUrl, pageOpen, shopify, pageGlobal,
                    dom, theme, palette, buttons, themeQuery, themePrimaryButton,
                    scores >>

GetButtons ==
    /\ pc = "extract"
    /\ "getButtons" \notin settled
    /\ Attempt("getButtons")
    /\ \/ /\ buttons' = getButtons(dom)
          /\ settled' = settled \cup {"getButtons"}
          /\ UNCHANGED << pc, result >>
       \/ /\ Throws("getButtons")
          /\ UNCHANGED << buttons, settled >>
    /\ UNCHANGED << options, productsJson, targetUrl, pageOpen, shopify, pageGlobal,
                    dom, theme, palette, bgRGB, themeQuery, themePrimaryButton, scores >>

\* findButtonBasedOnTheme(page, theme).  Its page.evaluate is the first read
\* of the page's global named theme.
FindButtonBasedOnTheme ==
    /\ pc = "extract"
    /\ "findButtonBasedOnTheme" \notin settled
    /\ Attempt("findButtonBasedOnTheme")
    /\ \E g \in PageGlobals :
          LET r == findButtonBasedOnTheme(dom, g, theme)
          IN  /\ r.evaluated \/ g = Unbound
              /\ pageGlobal' = g
              /\ themeQuery' = [queried |-> r.queried, selector |-> r.selector]
              /\ IF r.threw
                 THEN /\ Throws("ReferenceError: theme is not defined")
                      /\ UNCHANGED << themePrimaryButton, settled >>
                 ELSE /\ themePrimaryButton' = r.button
                      /\ settled' = settled \cup {"findButtonBasedOnTheme"}
                      /\ UNCHANGED << pc, result >>
    /\ UNCHANGED << options, productsJson, targetUrl, pageOpen, shopify, dom, theme,
                    palette, bgRGB, buttons, scores >>

\* The reduce and the return.
Assemble ==
    /\ pc = "extract"
    /\ settled = Tasks
    /\ scores' = [i \in 1..Len(buttons) |-> calculateButtonScore(buttons[i], bgRGB)]
    /\ LET best == ReduceButtons(buttons, bgRGB, 1,
                                 [button |-> NullButton, score |-> Num(0 - 1, 1)])
       IN  result' = [kind            |-> "profile",
                      palette         |-> palette,
                      backgroundColor |-> rgbToHex(bgRGB.r, bgRGB.g, bgRGB.b),
                      primaryButton   |-> MergePrimaryButton(themePrimaryButton,
                                                             best.button)]
    /\ pc' = "returned"
    /\ UNCHANGED << options, productsJson, targetUrl, pageOpen, shopify, pageGlobal,
                    dom, theme, attempts, settled, palette, bgRGB, buttons, themeQuery,
                    themePrimaryButton >>

Next ==
    \/ Start
    \/ ResolveTargetUrl
    \/ NewPage
    \/ Setup
    \/ SetRequestInterception
    \/ Goto
    \/ Evaluate
    \/ RemoveOverlays
    \/ Screenshot
    \/ GetPalette
    \/ GetColor
    \/ GetButtons
    \/ FindButtonBasedOnTheme
    \/ Assemble

Spec == Init /\ [][Next]_vars

(***************************************************************************)
(* The scoring step on its own: getStyles at the point where the second    *)
(* Promise.all has fulfilled, over pages whose two candidates differ in    *)
(* their text only, for many colours, spellings, texts and sizes.          *)
(***************************************************************************)
ScoreColours == { <<0, 0, 0>>, <<255, 255, 255>>, <<200, 64, 11>> }

ScoreAlphas ==
    { [num |-> 0, den |-> 1], [num |-> 4, den |-> 1000], [num |-> 2, den |-> 10],
      [num |-> 29, den |-> 100], [num |-> 3, den |-> 10], [num |-> 1, den |-> 1] }

ColorSyntaxes ==
    {"canonical", "compact", "padded", "bare-fraction", "rgb-with-alpha",
     "space-before-comma", "hex", "keyword"}

\* A hex colour has no alpha; the keywords are transparent, black and white.
SyntaxSpells(c, syntax) ==
    CASE syntax = "hex" -> c.a.num = c.a.den
      [] syntax = "keyword" ->
           \/ c.a.num = 0 /\ c.r = 0 /\ c.g = 0 /\ c.b = 0
           \/ c.a.num = c.a.den /\ c.r = c.g /\ c.g = c.b
      [] OTHER -> TRUE

ScoreTexts ==
    { "Add to Cart", "BUY  NOW", "Accept Cookies", " accept all ", "Add to wishlist",
      "OK", "Learn more", "Accept all and checkout" }

ScoreSizes == { [width |-> 200, height |-> 50], [width |-> 120, height |-> 35] }

ScoreBackgrounds ==
    { [r |-> 255, g |-> 255, b |-> 255], [r |-> 0, g |-> 0, b |-> 0],
      [r |-> 128, g |-> 128, b |-> 128] }

ScoreElements ==
    { [BaseElement EXCEPT !.background = [r |-> c[1], g |-> c[2], b |-> c[3], a |-> a],
                          !.colorSyntax = syntax, !.textContent = text,
                          !.width = size.width, !.height = size.height] :
        c \in ScoreColours, a \in ScoreAlphas,
        syntax \in ColorSyntaxes,
        text \in ScoreTexts, size \in ScoreSizes }

ScoreDoms ==
    { << el, [el EXCEPT !.textContent = text] >> :
        el \in {e \in ScoreElements : SyntaxSpells(e.background, e.colorSyntax)},
        text \in ScoreTexts }

ScoreInit ==
    /\ pc = "extract"
    /\ options = DEFAULT_OPTIONS
    /\ productsJson = NoFeed
    /\ targetUrl = Url
    /\ pageOpen = TRUE
    /\ shopify = NoShopify
    /\ pageGlobal = Unbound
    /\ dom \in ScoreDoms
    /\ theme = Null
    /\ attempts = [s \in Steps |-> IF s = "removeOverlays" THEN 0 ELSE 1]
    /\ settled = Tasks
    /\ palette = <<>>
    /\ bgRGB \in ScoreBackgrounds
    /\ buttons = getButtons(dom)
    /\ themeQuery = NoQuery
    /\ themePrimaryButton = NullButton
    /\ scores = <<>>
    /\ result = Pending

ScoreSpec == ScoreInit /\ [][Assemble]_vars

(***************************************************************************)
(* Properties.                                                             *)
(***************************************************************************)
\* The ten styling fields of ExtractedShopStyles["primaryButton"].
StyleFields ==
    {"backgroundColor", "textColor", "borderStyle", "borderWidth", "borderColor",
     "borderRadius", "textTransform", "fontFamily", "fontWeight", "padding"}

StyleOf(button) == [f \in StyleFields |-> button[f]]

\* The THEMES entry the page's descriptor matches by schema name or store
\* id (0: none).
MatchedTheme ==
    LET Test(t) == \/ t.schema_name = shopify.schema_name
                   \/ t.theme_store_id = shopify.theme_store_id
    IN  IF shopify.present THEN FindTheme({k \in 1..Len(THEMES) : Test(THEMES[k])}) ELSE 0

\* The elements of the page the selector matches, in document order.
ElementsMatching(selector) ==
    LET Test(el) == MatchesSelector(el, selector)
    IN  SelectSeq(dom, Test)

\* No operation outside the call's control (browser, network, file system,
\* colour libraries) has failed.
NoExternalFailure == pc = "failed" => result.error \notin Steps

\* C1: when the loaded page's theme descriptor matches a known theme and an
\* element matches that theme's button selector, the call returns a profile
\* whose primary button carries that element's styling, whatever the scorer
\* chose.
C1_ThemeButtonOverrides ==
    ( /\ pc \in {"returned", "failed"}
      /\ NoExternalFailure
      /\ MatchedTheme # 0
      /\ Len(ElementsMatching(THEMES[MatchedTheme].buttonSelector)) > 0 )
    => /\ pc = "returned"
       /\ StyleOf(result.primaryButton)
            = StyleOf(ExtractButton(
                        ElementsMatching(THEMES[MatchedTheme].buttonSelector)[1]))

\* C2: on every exit path of getStyles, return or throw, the page it opened
\* has been closed.
C2_PageClosedOnExit == pc \in {"returned", "failed"} => ~pageOpen

\* C3: the primary button of a returned profile has the ten styling fields
\* and no others (no boundingRect, no textContent).
C3_OnlyStylingFields ==
    pc = "returned" => DOMAIN result.primaryButton = StyleFields

\* C4: when the page yields no visible candidate and its descriptor matches
\* no theme, the returned primary button is exactly the default style: black
\* background, white text, no border, zero width, radius and padding, the
\* system sans-serif stack, normal weight.
C4_DefaultButtonStyle ==
    (pc = "returned" /\ Len(buttons) = 0 /\ MatchedTheme = 0)
    => result.primaryButton =
         [backgroundColor |-> "#000000",
          textColor       |-> "#FFFFFF",
          borderStyle     |-> "none",
          borderWidth     |-> "0",
          borderColor     |-> "#000000",
          borderRadius    |-> "0",
          textTransform   |-> "none",
          fontFamily      |-> "system-ui, -apple-system, BlinkMacSystemFont, 'Segoe UI', Roboto, Oxygen, Ubuntu, Cantarell, 'Open Sans', 'Helvetica Neue', sans-serif",
          fontWeight      |-> "normal",
          padding         |-> "0"]

\* A page with elements, none of them a visible candidate, and no theme.
C4_Witness ==
    /\ pc = "returned"
    /\ Len(dom) > 0
    /\ Len(buttons) = 0
    /\ MatchedTheme = 0
    /\ result.primaryButton.fontWeight = "normal"

\* The spellings of a colour that parseRgbString's expression accepts: rgb(
\* or rgba(, whitespace after the parenthesis and after each comma (none, one
\* blank, several, a tab), the alpha with or without its leading zero; and
\* the keyword transparent.  Whitespace before a comma is not among them.
AcceptedSpellings ==
    {"canonical", "compact", "padded", "bare-fraction", "rgb-with-alpha", "keyword"}

\* C5: a candidate whose background has an alpha below 0.3 scores exactly
\* -1, whatever accepted rgb()/rgba() spelling (or the literal transparent)
\* its colour has and whatever its text, size and contrast are.
C5_LowAlphaScoresMinusOne ==
    pc = "returned" =>
        /\ Len(buttons) = Len(dom)
        /\ \A i \in 1..Len(dom) :
              ( /\ dom[i].background.a.num * 10 < 3 * dom[i].background.a.den
                /\ dom[i].colorSyntax \in AcceptedSpellings )
              => scores[i] = Num(0 - 1000, 1000)

\* A large add-to-cart button of alpha 0.29 in a padded rgba() spelling, in
\* full contrast to the page: it would score highest if it were opaque.
C5_Witness ==
    /\ pc = "returned"
    /\ dom[1].background.a = [num |-> 29, den |-> 100]
    /\ dom[1].colorSyntax = "padded"
    /\ dom[1].background.r = 0
    /\ bgRGB.r = 255
    /\ buttons[1].textContent = "add to cart"
    /\ buttons[1].boundingRect.width = 200
    /\ scores[1] = Num(0 - 1000, 1000)

\* C6: getProductPageUrl never raises.  When the feed request fails, the
\* feed has no product list, reading it fails or no product qualifies, the
\* result is the original URL; otherwise it is url/products/<handle> of the
\* first product, in feed order, that has an image and was published more
\* than 30 days ago.
C6_ProductPageUrl ==
    productsJson.fetched =>
        LET ps == productsJson.products
            Old(i) == /\ ps[i].hasImages /\ ps[i].images > 0
                      /\ ps[i].published_at # 0
                      /\ Clock.today - ps[i].published_at > 30
            olds == {i \in 1..Len(ps) : Old(i)}
            first == IF olds = {} THEN Len(ps) + 1
                     ELSE CHOOSE i \in olds : \A j \in olds : i <= j
            unreadable == \/ \E i \in 1..Len(ps) : i < first /\ ~ps[i].hasImages
                          \/ first <= Len(ps) /\ ps[first].handle = ""
        IN  /\ pc = "failed" => result.error # "fetch"
            /\ targetUrl # Null
            /\ IF \/ productsJson.rejects \/ ~productsJson.hasProducts
                  \/ olds = {} \/ unreadable
               THEN targetUrl = Url
               ELSE targetUrl = Url \o "/products/" \o ps[first].handle

\* A product published yesterday comes first and is passed over for the one
\* published 40 days ago.
C6_Witness ==
    /\ productsJson.fetched
    /\ Len(productsJson.products) = 2
    /\ productsJson.products[1].handle = "new-product"
    /\ productsJson.products[2].handle = "old-product"
    /\ targetUrl = "https://shop.example/products/old-product"

\* C7: for each of the five themes, a descriptor matching it by schema name
\* or store id makes theme resolution query the page with that theme's
\* button selector, and resolution yields no override only when no element
\* matches that selector.
C7_ThemeSelectorQueried ==
    (MatchedTheme # 0 /\ (pc = "returned" \/ "findButtonBasedOnTheme" \in settled))
    => /\ themeQuery.queried
       /\ themeQuery.selector = THEMES[MatchedTheme].buttonSelector
       /\ ( themePrimaryButton = NullButton
            => Len(ElementsMatching(THEMES[MatchedTheme].buttonSelector)) = 0 )

\* The keyword bucket of a text: the first of primary (+25), secondary
\* (+15), cookie (-20) whose expression matches it, else none.
Bucket(text) ==
    IF RegexTest(PrimaryCtaPhrases, text) THEN "primary"
    ELSE IF RegexTest(SecondaryCtaPhrases, text) THEN "secondary"
    ELSE IF RegexTest(CookiePhrases, text) THEN "cookie"
    ELSE "none"

BucketPoints == [primary |-> 25000, secondary |-> 15000, cookie |-> 0 - 20000, none |-> 0]

\* Candidates i and j differ in their text only, and the scorer rejects
\* neither.
SameButForText(i, j) ==
    /\ [buttons[i] EXCEPT !.textContent = ""] = [buttons[j] EXCEPT !.textContent = ""]
    /\ ~ButtonColour(buttons[i].backgroundColor).reject
    /\ ~scores[i].nan /\ ~scores[j].nan

\* C8: of two candidates that differ in their text only and are not
\* rejected, the one whose text matches a primary call to action scores
\* strictly higher than the one whose text matches only a cookie phrase;
\* and exactly one bucket counts per candidate, the first that matches in
\* the order primary, secondary, cookie: apart from the short-text penalty
\* the two scores differ by the difference of those buckets' points.
C8_KeywordBuckets ==
    pc = "returned" =>
        \A i, j \in 1..Len(buttons) :
            SameButForText(i, j) =>
                /\ (Bucket(buttons[i].textContent) = "primary"
                      /\ Bucket(buttons[j].textContent) = "cookie")
                   => JsLess(scores[j], scores[i])
                /\ (scores[i].num - ShortTextScore(buttons[i].textContent))
                     - (scores[j].num - ShortTextScore(buttons[j].textContent))
                   = BucketPoints[Bucket(buttons[i].textContent)]
                       - BucketPoints[Bucket(buttons[j].textContent)]

\* A text that matches a primary and a cookie phrase beside one that matches
\* a cookie phrase only, on otherwise equal buttons.
C8_Witness ==
    /\ pc = "returned"
    /\ Len(buttons) = 2
    /\ SameButForText(1, 2)
    /\ buttons[1].textContent = "accept all and checkout"
    /\ buttons[2].textContent = "accept cookies"
    /\ scores[1].num - scores[2].num = 45000

\* C9: the scorer's selection (returned when there is no theme button) is
\* the candidate with the highest score; of several with that score the
\* earliest stays; and when no candidate scores above -1 there is no
\* winner: the theme button, or without one the default style, is returned.
C9_HighestScoreEarliestOnTie ==
    pc = "returned" =>
        LET above == {i \in 1..Len(buttons) : JsLess(Num(0 - 1000, 1000), scores[i])}
        IN  IF above = {}
            THEN result.primaryButton =
                   IF themePrimaryButton # NullButton THEN themePrimaryButton
                   ELSE DEFAULT_BUTTON_STYLE
            ELSE themePrimaryButton = NullButton =>
                 \E k \in above :
                    /\ \A j \in 1..Len(buttons) : ~JsLess(scores[k], scores[j])
                    /\ \A j \in 1..(k - 1) : JsLess(scores[j], scores[k])
                    /\ result.primaryButton = buttons[k]

\* Two different candidates with the same, highest score: the first wins.
C9_Witness ==
    /\ pc = "returned"
    /\ themePrimaryButton = NullButton
    /\ Len(buttons) = 2
    /\ buttons[1] # buttons[2]
    /\ scores[1] = scores[2]
    /\ JsLess(Num(0 - 1000, 1000), scores[1])
    /\ result.primaryButton = buttons[1]

\* C10: no operation is attempted a second time.  A rejected navigation,
\* screenshot or palette extraction fails the call with that error after
\* its one attempt, nothing later in the pipeline having been started, and
\* a failed call carries an error and no part of a profile.  Only a failed
\* feed request is absorbed: the call goes on with the original URL.
C10_FailOnceNoRetry ==
    /\ \A s \in Steps : attempts[s] <= 1
    /\ pc = "failed" <=> result.kind = "error"
    /\ pc = "returned" <=> result.kind = "profile"
    /\ pc = "failed" => DOMAIN result = {"kind", "error"}
    /\ (pc = "failed" /\ result.error = "goto")
       => /\ attempts["goto"] = 1
          /\ \A s \in {"evaluate", "removeOverlays", "screenshot"} \cup Tasks :
                attempts[s] = 0
    /\ (pc = "failed" /\ result.error = "screenshot")
       => /\ attempts["screenshot"] = 1
          /\ \A s \in Tasks : attempts[s] = 0
    /\ (pc = "failed" /\ result.error = "getPalette") => attempts["getPalette"] = 1
    /\ pc = "returned"
       => \A s \in {"goto", "screenshot", "getPalette"} : attempts[s] = 1
    /\ (productsJson.fetched /\ productsJson.rejects)
       => /\ targetUrl = Url
          /\ pc = "failed" => result.error # "fetch"
    /\ result.kind = "error" => result.error # "fetch"

\* Palette extraction rejects after the candidates were extracted: the call
\* fails and returns nothing of them.
C10_Witness ==
    /\ pc = "failed"
    /\ result = [kind |-> "error", error |-> "getPalette"]
    /\ "getButtons" \in settled
    /\ Len(buttons) > 0
    /\ attempts["getPalette"] = 1

\* The caller asked for overlay removal.
RemoveOverlaysAsked ==
    Nullish(options.removeOverlays, DEFAULT_OPTIONS.removeOverlays) = "true"

\* The screenshot or one of the four extractions has been started.
CaptureStarted == \E s \in {"screenshot"} \cup Tasks : attempts[s] > 0

\* C11: with options.removeOverlays true, overlay hiding and removal runs
\* after the screenshot was captured and before candidate collection, theme
\* resolution and palette extraction; with the option false or absent it
\* never runs.
C11_OverlaysAfterScreenshot ==
    /\ attempts["removeOverlays"] > 0 => attempts["screenshot"] > 0
    /\ (RemoveOverlaysAsked /\ \E s \in Tasks : attempts[s] > 0)
       => attempts["removeOverlays"] > 0
    /\ ~RemoveOverlaysAsked => attempts["removeOverlays"] = 0

\* C11 as the code has it: with options.removeOverlays true, overlay hiding
\* and removal runs once, after the page was loaded and its media hidden and
\* before the screenshot, so before every extraction: by then every element
\* the overlay selectors match is styled display none and opacity 0 and no
\* full-screen layer is left in the page; with the option false or absent it
\* never runs.
C11_OverlaysBeforeScreenshot ==
    /\ attempts["removeOverlays"] > 0
       => /\ RemoveOverlaysAsked
          /\ attempts["goto"] = 1 /\ attempts["evaluate"] = 1
    /\ (RemoveOverlaysAsked /\ CaptureStarted)
       => /\ attempts["removeOverlays"] = 1
          /\ \A i \in 1..Len(dom) :
                /\ IsOverlay(dom[i]) => dom[i].display = "none" /\ dom[i].opacity = "0"
                /\ ~IsFullScreenOverlay(dom[i])
    /\ (pc = "removeOverlays" \/ (pc = "failed" /\ result.error = "removeOverlays"))
       => ~CaptureStarted
    /\ ~RemoveOverlaysAsked => attempts["removeOverlays"] = 0

\* A returned call that hid the cookie button before anything was captured:
\* the button is still in the page, hidden, and is no candidate.
C11_Witness ==
    /\ pc = "returned"
    /\ RemoveOverlaysAsked
    /\ attempts["removeOverlays"] = 1
    /\ Len(dom) = 1
    /\ dom[1].class = "cookie-accept"
    /\ dom[1].display = "none"
    /\ buttons = <<>>

====
